---- MODULE Spec2Model ----
(***************************************************************************)
(* Model of the nyumba_hub backend: the identity resolver and its two      *)
(* middlewares (backend/supabase.js), the favorites router                 *)
(* (backend/routes/favorites.js) and the two listings routers kept in the  *)
(* repository (router 1 and router 2).                                     *)
(*                                                                         *)
(* The relational store, the object store and the identity provider are    *)
(* external: every call to them is one atomic step that either succeeds or *)
(* fails, chosen nondeterministically.  A handler that makes several calls *)
(* is a sequence of steps (one per await on the store), so that other      *)
(* requests can interleave between them.                                   *)
(***************************************************************************)
EXTENDS Integers, Sequences, FiniteSets, TLC

VARIABLES
  listings,   \* the rows of table listings
  nextId,     \* the next store-assigned listing id
  blobs,      \* the keys present in bucket listing-images
  nextKey,    \* the number of blob keys generated so far
  favorites,  \* the rows of table favorites
  nextFav,    \* the next store-assigned favorite id
  now,        \* the wall clock read by new Date(), in ticks since the start
  mounted,    \* which of the repository's two listings routers is mounted (1 or 2)
  reqs,       \* the requests of the several-step handlers, per slot
  resp,       \* the response given in the last step, if a one-step handler gave it
  auth,       \* the last run of a middleware on a route
  served      \* the number of several-step requests accepted so far

vars ==
  <<listings, nextId, blobs, nextKey, favorites, nextFav, now, mounted, reqs, resp, auth,
    served>>

(***************************************************************************)
(* Bounds of the model.                                                    *)
(***************************************************************************)
MaxListings == 2   \* listing ids ever assigned
MaxKeys == 2       \* blob keys ever generated
MaxFavs == 3       \* favorite ids ever assigned
MaxRequests == 3   \* several-step requests accepted in a run

(***************************************************************************)
(* Identities.  The profiles table is owned outside this system and only   *)
(* read here: each identity has a fixed profile row, or none.              *)
(***************************************************************************)
NoUser == "none"
Users == {"lara", "carl", "tess", "rolf", "nora"}

NoProfile == [user_type |-> "-"]
NullRole == "null"

\* profiles row of a user: lara is a landlord, carl a caretaker, tess a tenant,
\* rolf has a profile whose user_type is null, nora has no profiles row.
Profile(u) ==
  CASE u = "lara" -> [user_type |-> "landlord", full_name |-> "Lara"]
    [] u = "carl" -> [user_type |-> "caretaker", full_name |-> "Carl"]
    [] u = "tess" -> [user_type |-> "tenant", full_name |-> "Tess"]
    [] u = "rolf" -> [user_type |-> NullRole, full_name |-> "Rolf"]
    [] OTHER -> NoProfile

(***************************************************************************)
(* Strings that the code takes apart are sequences: an Authorization       *)
(* header is a sequence of characters followed by the credential, a URL is *)
(* the sequence of its '/'-separated segments.                             *)
(***************************************************************************)
Min(a, b) == IF a < b THEN a ELSE b

\* String.prototype.startsWith
StartsWith(s, p) == Len(s) >= Len(p) /\ SubSeq(s, 1, Len(p)) = p

\* String.prototype.substring(n)
Substring(s, n) == SubSeq(s, n + 1, Len(s))

BearerPrefix == <<"B", "e", "a", "r", "e", "r", " ">>

\* An absent header (undefined) and the empty string are both falsy.
NoHeader == <<>>

Tokens == {"tok_lara", "tok_carl", "tok_tess", "tok_rolf", "tok_nora", "tok_junk"}

\* The identity a credential was issued to, if any.
TokenUser(token) ==
  CASE token = <<"tok_lara">> -> "lara"
    [] token = <<"tok_carl">> -> "carl"
    [] token = <<"tok_tess">> -> "tess"
    [] token = <<"tok_rolf">> -> "rolf"
    [] token = <<"tok_nora">> -> "nora"
    [] OTHER -> NoUser

Headers ==
  {NoHeader}
    \cup {BearerPrefix \o <<t>> : t \in Tokens}
    \cup {BearerPrefix}
    \cup {<<"B", "e", "a", "r", "e", "r", t>> : t \in Tokens}
    \cup {<<"b", "e", "a", "r", "e", "r", " ", t>> : t \in Tokens}
    \cup {<<"B", "a", "s", "i", "c", " ", t>> : t \in Tokens}

\* supabase.auth.getUser(token): "ok" returns the user of a valid credential,
\* "error" returns an error object (invalid or expired credential), "throw"
\* raises (network failure).
IdpOutcomes(token) ==
  {"error", "throw"} \cup (IF TokenUser(token) # NoUser THEN {"ok"} ELSE {})

\* What the identity provider may answer to a header's credential; "unused"
\* when the header never reaches the provider.
IdpFor(authHeader) ==
  IF authHeader # NoHeader /\ StartsWith(authHeader, BearerPrefix)
    THEN IdpOutcomes(Substring(authHeader, 7))
    ELSE {"unused"}

\* getUserFromAuth without its try/catch: a failure of the provider escapes.
getUserFromAuthNoCatch(authHeader, idp) ==
  IF authHeader = NoHeader \/ ~StartsWith(authHeader, BearerPrefix)
    THEN [user |-> NoUser, threw |-> FALSE]
    ELSE LET token == Substring(authHeader, 7) IN
         IF idp = "ok"
           THEN [user |-> TokenUser(token), threw |-> FALSE]
           ELSE [user |-> NoUser, threw |-> TRUE]

\* getUserFromAuth: the resolved user or null, and whether the call threw.
getUserFromAuth(authHeader, idp) ==
  IF authHeader = NoHeader \/ ~StartsWith(authHeader, BearerPrefix)
    THEN [user |-> NoUser, threw |-> FALSE]
    ELSE LET token == Substring(authHeader, 7) IN
         IF idp = "ok"
           THEN [user |-> TokenUser(token), threw |-> FALSE]
           ELSE [user |-> NoUser, threw |-> FALSE]

\* requireAuth: 401 without calling the handler when no user is resolved.  An
\* exception escaping the middleware is answered by the error handler of the
\* application (500).
requireAuth(authHeader, idp) ==
  LET r == getUserFromAuth(authHeader, idp) IN
  IF r.threw THEN [status |-> 500, next |-> FALSE, user |-> NoUser]
  ELSE IF r.user = NoUser THEN [status |-> 401, next |-> FALSE, user |-> NoUser]
  ELSE [status |-> 0, next |-> TRUE, user |-> r.user]

\* optionalAuth: always calls the handler, with req.user possibly null.
optionalAuth(authHeader, idp) ==
  LET r == getUserFromAuth(authHeader, idp) IN
  IF r.threw THEN [status |-> 500, next |-> FALSE, user |-> NoUser]
  ELSE [status |-> 0, next |-> TRUE, user |-> r.user]

\* The routes and the middleware each is mounted behind.
RequireAuthRoutes ==
  {"POST /listings", "PUT /listings/:id", "DELETE /listings/:id",
   "GET /listings/landlord/my-listings", "GET /favorites", "POST /favorites",
   "DELETE /favorites/:listingId", "GET /favorites/check/:listingId"}
OptionalAuthRoutes ==
  {"GET /listings", "POST /listings/search", "GET /listings/:id",
   "GET /listings/landlord/:landlordId"}
Routes == RequireAuthRoutes \cup OptionalAuthRoutes

\* The middleware of a route, run on a request's Authorization header.
Authenticate(route, authHeader, idp) ==
  IF route \in RequireAuthRoutes
    THEN requireAuth(authHeader, idp)
    ELSE optionalAuth(authHeader, idp)

NoAuth == [route |-> "-", header |-> NoHeader, idp |-> "-", status |-> 0,
           next |-> FALSE, user |-> NoUser, threw |-> FALSE]

\* One run of a route's middleware, recorded for the claims about it.
Middleware(route, authHeader, idp) ==
  LET a == Authenticate(route, authHeader, idp) IN
  /\ auth' = [route |-> route, header |-> authHeader, idp |-> idp,
              status |-> a.status, next |-> a.next, user |-> a.user,
              threw |-> getUserFromAuth(authHeader, idp).threw]
  /\ UNCHANGED <<listings, nextId, blobs, nextKey, favorites, nextFav, now, mounted, reqs, resp, served>>

(***************************************************************************)
(* The stores.  A listings row keeps the fields the handlers decide on:    *)
(* id, landlord_id, is_available, price (standing for the filterable       *)
(* columns), image_url, images and updated_at.  The other columns are      *)
(* copied from the request to the row and read by no handler.              *)
(***************************************************************************)
Null == <<>>          \* a null image_url
Undefined == "undefined"
NaN == 0 - 1

NoRow == [id |-> 0]   \* data: null of a select

\* A generated file name: `${Date.now()}_${Math.random()...}${ext}`, taken
\* to be fresh (the spec calls a collision negligible).
Key(i) == "img" \o ToString(i)

\* storage.from('listing-images').getPublicUrl(fileName).data.publicUrl,
\* as the sequence of the URL's '/'-separated segments.
PublicUrl(key) == <<"https:", "", "store", "listing-images", key>>

\* .select(cols)
Project(row, cols) == [c \in cols |-> row[c]]

Last(s) == s[Len(s)]
SeqToSet(s) == {s[i] : i \in 1..Len(s)}

\* Array.prototype.filter(x => !other.includes(x))
RECURSIVE Without(_, _)
Without(s, drop) ==
  IF s = <<>> THEN <<>>
  ELSE IF s[1] \in drop THEN Without(Tail(s), drop)
  ELSE <<s[1]>> \o Without(Tail(s), drop)

\* url.split('/').filter(Boolean).pop() (router 1): the last non-empty segment
RECURSIVE LastNonEmpty(_)
LastNonEmpty(url) ==
  IF url = <<>> THEN Undefined
  ELSE IF Last(url) # "" THEN Last(url)
  ELSE LastNonEmpty(SubSeq(url, 1, Len(url) - 1))

\* url.split('/').pop() (router 2): the last segment, empty or not
LastSegment(url) == Last(url)

\* The blob key the mounted router derives from a stored URL.
PathOf(url) == IF mounted = 1 THEN LastNonEmpty(url) ELSE LastSegment(url)

PathsOf(urls) == [i \in 1..Len(urls) |-> PathOf(urls[i])]

\* A URL string is truthy unless it is null or the empty string.
Truthy(url) == url # Null /\ url # <<"">>

\* parseInt of a request field; an absent or non-numeric field gives NaN.
ParseInt(s) ==
  CASE s = "10" -> 10
    [] s = "20" -> 20
    [] s = "0" -> 0
    [] OTHER -> NaN

\* parseInt(x) || 0
OrZero(n) == IF n = NaN THEN 0 ELSE n

\* x === 'true'
IsTrueString(s) == s = "true"

RowById(id) == {l \in listings : l.id = id}

\* .eq('id', id).single() on listings: exactly one row, else error PGRST116
\* with data null; ok = FALSE is a failure of the store itself.
SelectListing(id, ok) ==
  IF ok /\ Cardinality(RowById(id)) = 1
    THEN [error |-> FALSE, data |-> CHOOSE l \in listings : l.id = id]
    ELSE [error |-> TRUE, data |-> NoRow]

\* .eq('id', user).single() on profiles
SelectProfile(u, ok) ==
  IF ok /\ Profile(u) # NoProfile
    THEN [error |-> FALSE, data |-> Profile(u)]
    ELSE [error |-> TRUE, data |-> NoProfile]

\* The image references of a row: the primary one, then the additional ones.
RefsOf(l) == (IF l.image_url = Null THEN {} ELSE {l.image_url}) \cup SeqToSet(l.images)

(***************************************************************************)
(* Requests of the handlers that make several store calls.  A slot holds   *)
(* one request: its position (pc), the locals the handler still needs, and *)
(* once it is answered (pc = "done") the response, the call that failed    *)
(* and the blobs the request removed.                                      *)
(***************************************************************************)
Slots == {"a", "b"}

\* resp when the last step was not the answer of a one-step handler
NoResp == [route |-> "-", user |-> NoUser, id |-> 0, status |-> 0,
           code |-> "-", rows |-> <<>>, flag |-> FALSE, total |-> 0, failed |-> FALSE]

Idle ==
  [kind |-> "-", user |-> NoUser, id |-> 0, pc |-> "idle", status |-> 0,
   code |-> "-", failed |-> "-", removed |-> {},
   avail |-> "-", price |-> "-", amenities |-> "-", keys |-> <<>>,
   listing |-> NoRow, image_url |-> Null, images |-> <<>>, toDelete |-> <<>>]

Free(s) == reqs[s].pc \in {"idle", "done"}

\* res.status(status).json({..., code}): the request is answered and the
\* handler's locals are gone.
Respond(r, status, code) ==
  [Idle EXCEPT !.kind = r.kind, !.user = r.user, !.id = r.id, !.pc = "done",
               !.status = status, !.code = code, !.failed = r.failed,
               !.removed = r.removed]

\* The code of the 500 answered by a handler's catch block.
CatchCode(kind) ==
  IF mounted = 1 THEN "-"
  ELSE CASE kind = "create" -> "INSERT_ERROR"
         [] kind = "update" -> "UPDATE_ERROR"
         [] kind = "delete" -> "DELETE_ERROR"
         [] OTHER -> "-"

\* throw inside the handler's try: the catch block answers 500.  what names
\* the call that failed.
Throw(r, what) == Respond([r EXCEPT !.failed = what], 500, CatchCode(r.kind))

\* JSON.parse(req.body.amenities || '[]') while the row is built: it throws on
\* text that is not JSON, and the handler then never issues the write.
BuildRow(r) == IF r.amenities = "bad" THEN Throw(r, "build") ELSE [r EXCEPT !.pc = "writing"]

Pending(kind) == {s \in Slots : reqs[s].kind = kind /\ ~Free(s)}

\* The file names of a request's files, in order.
NewKeys(n) == [i \in 1..n |-> Key(nextKey + i - 1)]

\* What a route's middleware makes of requests that carry the headers hs.
AuthResults(route, hs) ==
  {Authenticate(route, hi[1], hi[2]) :
     hi \in {x \in hs \X {"ok", "error", "throw", "unused"} : x[2] \in IdpFor(x[1])}}

(***************************************************************************)
(* POST /listings (create), routers 1 and 2.                               *)
(***************************************************************************)
\* The role check of create on the profile it fetched.
MayCreate(profile) == profile # NoProfile /\ profile.user_type \in {"landlord", "caretaker"}

\* From requireAuth to the role check: the profile is fetched (one store call);
\* the request then waits on its uploads, or on the insert when it has no file.
CreateStart(s, a, files, avail, price, amenities, ok) ==
  /\ Free(s)
  /\ served < MaxRequests
  /\ served' = served + 1
  /\ nextKey + files - 1 <= MaxKeys
  /\ nextId + Cardinality(Pending("create")) <= MaxListings
  /\ LET r0 == [Idle EXCEPT !.kind = "create", !.user = a.user]
         r1 == [r0 EXCEPT !.avail = avail, !.price = price, !.amenities = amenities]
         p == SelectProfile(a.user, ok)
         \* what went wrong when single() reports an error: the store, or the
         \* number of rows (none) it found
         what == IF ok THEN "no profile" ELSE "profile"
     IN
     IF ~a.next
       THEN /\ reqs' = [reqs EXCEPT ![s] = Respond(r0, a.status, "-")]
            /\ UNCHANGED nextKey
     ELSE IF p.error
       THEN /\ reqs' = [reqs EXCEPT ![s] =
                          IF mounted = 1 THEN Throw(r0, what)
                          ELSE Respond([r0 EXCEPT !.failed = what], 500,
                                       "PROFILE_FETCH_ERROR")]
            /\ UNCHANGED nextKey
     ELSE IF ~MayCreate(p.data)
       THEN /\ reqs' = [reqs EXCEPT ![s] =
                          Respond(r0, 403, IF mounted = 1 THEN "-" ELSE "UNAUTHORIZED")]
            /\ UNCHANGED nextKey
     ELSE /\ reqs' = [reqs EXCEPT ![s] =
                        IF files > 0
                          THEN [r1 EXCEPT !.keys = NewKeys(files), !.pc = "uploading"]
                          ELSE BuildRow(r1)]
          /\ nextKey' = nextKey + files
  /\ resp' = NoResp
  /\ UNCHANGED <<listings, nextId, blobs, favorites, nextFav, now, mounted, auth>>

\* imagesToDelete of update: the old additional images' paths that are not
\* among the new additional images' paths.
ImagesToDelete(oldImages, images) ==
  Without(PathsOf(oldImages), SeqToSet(PathsOf(images)))

\* Update, from the reconcile to the row: the orphans are removed first, when
\* there are any, and the row is built and written after that.
Reconcile(r, image_url, images) ==
  LET toDelete == ImagesToDelete(r.listing.images, images)
      r1 == [r EXCEPT !.image_url = image_url, !.images = images, !.toDelete = toDelete]
  IN IF toDelete # <<>> THEN [r1 EXCEPT !.pc = "removing"] ELSE BuildRow(r1)

\* Uploads awaited with Promise.allSettled: a rejected upload is not noticed
\* and the handler goes on with every URL (defined for comparison, used by no
\* handler).
UploadAllSettled(s, oks) ==
  LET r == reqs[s]
      stored == {r.keys[i] : i \in {j \in 1..Len(r.keys) : oks[j]}}
      uploadedUrls == [i \in 1..Len(r.keys) |-> PublicUrl(r.keys[i])]
  IN
  /\ r.pc = "uploading"
  /\ blobs' = blobs \cup stored
  /\ reqs' = [reqs EXCEPT ![s] =
       IF r.kind = "create"
         THEN BuildRow([r EXCEPT !.image_url = uploadedUrls[1],
                                 !.images = Tail(uploadedUrls)])
       ELSE Reconcile(r, uploadedUrls[1], r.images \o Tail(uploadedUrls))]
  /\ resp' = NoResp
  /\ UNCHANGED <<listings, nextId, nextKey, favorites, nextFav, now, mounted, auth, served>>

\* await Promise.all(uploadPromises): every file's upload is issued; oks says
\* which of them the object store accepts.  One rejection rejects the whole
\* and the handler answers 500; the blobs already stored stay.
UploadAll(s, oks) ==
  LET r == reqs[s]
      stored == {r.keys[i] : i \in {j \in 1..Len(r.keys) : oks[j]}}
      uploadedUrls == [i \in 1..Len(r.keys) |-> PublicUrl(r.keys[i])]
  IN
  /\ r.pc = "uploading"
  /\ blobs' = blobs \cup stored
  /\ reqs' = [reqs EXCEPT ![s] =
       IF \E i \in 1..Len(r.keys) : ~oks[i] THEN Throw(r, "upload")
       ELSE IF r.kind = "create"
         THEN BuildRow([r EXCEPT !.image_url = uploadedUrls[1],
                                 !.images = Tail(uploadedUrls)])
       ELSE Reconcile(r, uploadedUrls[1], r.images \o Tail(uploadedUrls))]
  /\ resp' = NoResp
  /\ UNCHANGED <<listings, nextId, nextKey, favorites, nextFav, now, mounted, auth, served>>

\* listingData of create, as the row the store keeps once it has given it an id.
ListingData(r, id) ==
  [id |-> id, landlord_id |-> r.user, is_available |-> IsTrueString(r.avail),
   price |-> OrZero(ParseInt(r.price)), image_url |-> r.image_url,
   images |-> r.images, updated_at |-> now]

\* .from('listings').insert(listingData).select().single()
CreateInsert(s, ok) ==
  LET r == reqs[s] IN
  /\ r.kind = "create" /\ r.pc = "writing"
  /\ IF ok
       THEN /\ listings' = listings \cup {ListingData(r, nextId)}
            /\ nextId' = nextId + 1
            /\ reqs' = [reqs EXCEPT ![s] = Respond([r EXCEPT !.id = nextId], 201, "-")]
       ELSE /\ reqs' = [reqs EXCEPT ![s] = Throw(r, "write")]
            /\ UNCHANGED <<listings, nextId>>
  /\ resp' = NoResp
  /\ UNCHANGED <<blobs, nextKey, favorites, nextFav, now, mounted, auth, served>>

(***************************************************************************)
(* PUT /listings/:id (update), routers 1 and 2.                            *)
(***************************************************************************)
\* req.body.existing_images: "absent" (or empty), "bad" (text JSON.parse
\* rejects), or the list of URLs the client wants kept.
ExistingAbsent == <<<<"absent">>>>
ExistingBad == <<<<"bad">>>>

\* A check of the row that forgets its owner (defined for comparison, used by
\* no handler).
RefusalIgnoringOwner(f, user) ==
  IF mounted = 1 /\ f.error THEN "throw"
  ELSE IF f.error \/ f.data = NoRow THEN "403"
  ELSE ""

\* The answer of update and delete to the row they fetched, when it is not
\* to go on: router 1 throws on the error of single() (a missing row is one)
\* and answers 403 to another owner's row; router 2 answers 403 to all three.
\* "" when the requester owns the row.
Refusal(f, user) ==
  IF mounted = 1 /\ f.error THEN "throw"
  ELSE IF f.error \/ f.data = NoRow \/ f.data.landlord_id # user THEN "403"
  ELSE ""

Refuse(r, f) ==
  IF Refusal(f, r.user) = "throw" THEN Throw(r, "fetch")
  ELSE Respond(r, 403, IF mounted = 1 THEN "-" ELSE "UNAUTHORIZED")

\* From requireAuth to the reconcile: the row is fetched (one store call) and
\* the ownership checked; the request then waits on its uploads, on the remove
\* of the orphans, or on the row update.
UpdateStart(s, a, id, files, existing, avail, price, amenities, ok) ==
  /\ Free(s)
  /\ served < MaxRequests
  /\ served' = served + 1
  /\ nextKey + files - 1 <= MaxKeys
  /\ LET r0 == [Idle EXCEPT !.kind = "update", !.user = a.user, !.id = id]
         f == SelectListing(id, ok)
         r1 == [r0 EXCEPT !.avail = avail, !.price = price, !.amenities = amenities,
                          !.listing = Project(f.data, {"landlord_id", "image_url", "images"}),
                          !.image_url = f.data.image_url]
     IN
     IF ~a.next
       THEN /\ reqs' = [reqs EXCEPT ![s] = Respond(r0, a.status, "-")]
            /\ UNCHANGED nextKey
     ELSE IF Refusal(f, a.user) # ""
       THEN /\ reqs' = [reqs EXCEPT ![s] = Refuse(r0, f)]
            /\ UNCHANGED nextKey
     ELSE IF existing = ExistingBad
       THEN /\ reqs' = [reqs EXCEPT ![s] = Throw(r1, "parse")]
            /\ UNCHANGED nextKey
     ELSE LET images == IF existing = ExistingAbsent THEN f.data.images ELSE existing IN
          /\ reqs' = [reqs EXCEPT ![s] =
                        IF files > 0
                          THEN [r1 EXCEPT !.images = images, !.keys = NewKeys(files),
                                          !.pc = "uploading"]
                          ELSE Reconcile(r1, f.data.image_url, images)]
          /\ nextKey' = nextKey + files
  /\ resp' = NoResp
  /\ UNCHANGED <<listings, nextId, blobs, favorites, nextFav, now, mounted, auth>>

\* storage.from('listing-images').remove(paths) of update and delete.  Router 1
\* throws on the error the call returns; router 2 does not look at it and
\* goes on (the record of the request keeps that the call failed).
RemoveBlobs(s, ok) ==
  LET r == reqs[s]
      gone == IF ok THEN SeqToSet(r.toDelete) \cap blobs ELSE {}
      r1 == [r EXCEPT !.removed = gone, !.failed = IF ok THEN r.failed ELSE "remove"]
  IN
  /\ r.pc = "removing"
  /\ blobs' = blobs \ gone
  /\ reqs' = [reqs EXCEPT ![s] =
       IF ~ok /\ mounted = 1 THEN Throw(r1, "remove")
       ELSE IF r.kind = "update" THEN BuildRow(r1)
       ELSE [r1 EXCEPT !.pc = "writing"]]
  /\ resp' = NoResp
  /\ UNCHANGED <<listings, nextId, nextKey, favorites, nextFav, now, mounted, auth, served>>

\* updateData of update applied to the stored row l.
UpdateData(r, l) ==
  [l EXCEPT !.is_available = IsTrueString(r.avail),
            !.price = OrZero(ParseInt(r.price)),
            !.image_url = r.image_url,
            !.images = r.images,
            !.updated_at = now]

\* .from('listings').update(updateData).eq('id', id).select().single(): with
\* no row of that id left, single() reports an error.
UpdateWrite(s, ok) ==
  LET r == reqs[s] IN
  /\ r.kind = "update" /\ r.pc = "writing"
  /\ IF ok /\ RowById(r.id) # {}
       THEN /\ listings' = {IF l.id = r.id THEN UpdateData(r, l) ELSE l : l \in listings}
            /\ reqs' = [reqs EXCEPT ![s] = Respond(r, 200, "-")]
       ELSE /\ reqs' = [reqs EXCEPT ![s] = Throw(r, "write")]
            /\ UNCHANGED listings
  /\ resp' = NoResp
  /\ UNCHANGED <<nextId, blobs, nextKey, favorites, nextFav, now, mounted, auth, served>>

(***************************************************************************)
(* DELETE /listings/:id, routers 1 and 2.                                  *)
(***************************************************************************)
\* imagePaths of delete: the primary image's path, when there is one, then
\* the additional images' paths.
ImagePaths(l) ==
  (IF Truthy(l.image_url) THEN <<PathOf(l.image_url)>> ELSE <<>>) \o PathsOf(l.images)

\* From requireAuth to the blob paths: the row is fetched and the ownership
\* checked; the request then waits on the remove of its blobs, or on the
\* delete of the row when it has none.
DeleteStart(s, a, id, ok) ==
  /\ Free(s)
  /\ served < MaxRequests
  /\ served' = served + 1
  /\ LET r0 == [Idle EXCEPT !.kind = "delete", !.user = a.user, !.id = id]
         f == SelectListing(id, ok)
     IN
     reqs' = [reqs EXCEPT ![s] =
       IF ~a.next THEN Respond(r0, a.status, "-")
       ELSE IF Refusal(f, a.user) # "" THEN Refuse(r0, f)
       ELSE LET imagePaths == ImagePaths(f.data) IN
            [r0 EXCEPT !.toDelete = imagePaths,
                       !.pc = IF imagePaths # <<>> THEN "removing" ELSE "writing"]]
  /\ resp' = NoResp
  /\ UNCHANGED <<listings, nextId, blobs, nextKey, favorites, nextFav, now, mounted, auth>>

\* .from('listings').delete().eq('id', id).  The favorites router embeds the
\* listing of each favorite, so favorites references listings; whether a
\* listing that has favorites is refused or takes them along is the foreign
\* key's declaration, which is not in the sources: both are allowed.
DeleteRow(s, ok, cascade) ==
  LET r == reqs[s]
      refs == {f \in favorites : f.listing_id = r.id}
  IN
  /\ r.kind = "delete" /\ r.pc = "writing"
  /\ IF ok /\ (refs = {} \/ cascade)
       THEN /\ listings' = listings \ RowById(r.id)
            /\ favorites' = favorites \ refs
            /\ reqs' = [reqs EXCEPT ![s] = Respond(r, 200, "-")]
       ELSE /\ reqs' = [reqs EXCEPT ![s] = Throw(r, "write")]
            /\ UNCHANGED <<listings, favorites>>
  /\ resp' = NoResp
  /\ UNCHANGED <<nextId, blobs, nextKey, nextFav, now, mounted, auth, served>>

(***************************************************************************)
(* The favorites router.                                                   *)
(***************************************************************************)
FavsOf(u, id) == {f \in favorites : f.user_id = u /\ f.listing_id = id}

\* A favorite handler that does not look at is_available (defined for
\* comparison, used by no specification).
FavoriteStartUnchecked(s, a, listing_id, ok) ==
  /\ Free(s)
  /\ served < MaxRequests
  /\ served' = served + 1
  /\ nextFav + Cardinality(Pending("favorite")) <= MaxFavs
  /\ LET r0 == [Idle EXCEPT !.kind = "favorite", !.user = a.user, !.id = listing_id]
         f == SelectListing(listing_id, ok)
     IN
     reqs' = [reqs EXCEPT ![s] =
       IF ~a.next THEN Respond(r0, a.status, "-")
       ELSE IF listing_id = 0 THEN Respond(r0, 400, "INVALID_INPUT")
       ELSE IF f.error \/ f.data = NoRow
         THEN Respond([r0 EXCEPT !.failed = IF ok THEN "-" ELSE "fetch"], 404, "NOT_FOUND")
       ELSE [r0 EXCEPT !.pc = "writing"]]
  /\ resp' = NoResp
  /\ UNCHANGED <<listings, nextId, blobs, nextKey, favorites, nextFav, now, mounted, auth>>

\* POST /favorites, from requireAuth to the availability check: the listing
\* is fetched (one store call).  A request without listing_id carries id 0.
FavoriteStart(s, a, listing_id, ok) ==
  /\ Free(s)
  /\ served < MaxRequests
  /\ served' = served + 1
  /\ nextFav + Cardinality(Pending("favorite")) <= MaxFavs
  /\ LET r0 == [Idle EXCEPT !.kind = "favorite", !.user = a.user, !.id = listing_id]
         f == SelectListing(listing_id, ok)
     IN
     reqs' = [reqs EXCEPT ![s] =
       IF ~a.next THEN Respond(r0, a.status, "-")
       ELSE IF listing_id = 0 THEN Respond(r0, 400, "INVALID_INPUT")
       ELSE IF f.error \/ f.data = NoRow
         THEN Respond([r0 EXCEPT !.failed = IF ok THEN "-" ELSE "fetch"], 404, "NOT_FOUND")
       ELSE IF ~f.data.is_available THEN Respond(r0, 400, "UNAVAILABLE")
       ELSE [r0 EXCEPT !.pc = "writing"]]
  /\ resp' = NoResp
  /\ UNCHANGED <<listings, nextId, blobs, nextKey, favorites, nextFav, now, mounted, auth>>

\* The store's answer to insert({user_id, listing_id}) into favorites: "23505"
\* when the pair is already there (the unique constraint), "23503" when the
\* listing is not (the foreign key), "XX000" for a failure of the store, ""
\* when the row is inserted.
InsertFavoriteError(u, id, ok) ==
  IF ~ok THEN "XX000"
  ELSE IF FavsOf(u, id) # {} THEN "23505"
  ELSE IF RowById(id) = {} THEN "23503"
  ELSE ""

\* A handler that upserts: the duplicate replaces the row it finds.
FavoriteUpsert(s, ok) ==
  LET r == reqs[s]
      e == InsertFavoriteError(r.user, r.id, ok)
  IN
  /\ r.kind = "favorite" /\ r.pc = "writing"
  /\ IF e \in {"", "23505"}
       THEN /\ favorites' = (favorites \ FavsOf(r.user, r.id))
                              \cup {[id |-> nextFav, user_id |-> r.user, listing_id |-> r.id]}
            /\ nextFav' = nextFav + 1
            /\ reqs' = [reqs EXCEPT ![s] = Respond(r, 201, "-")]
       ELSE /\ reqs' = [reqs EXCEPT ![s] = Respond([r EXCEPT !.failed = "write"], 500, "INSERT_ERROR")]
            /\ UNCHANGED <<favorites, nextFav>>
  /\ resp' = NoResp
  /\ UNCHANGED <<listings, nextId, blobs, nextKey, now, mounted, auth, served>>

\* POST /favorites, the insert and the answer to its error.
FavoriteInsert(s, ok) ==
  LET r == reqs[s]
      e == InsertFavoriteError(r.user, r.id, ok)
  IN
  /\ r.kind = "favorite" /\ r.pc = "writing"
  /\ IF e = ""
       THEN /\ favorites' = favorites
                              \cup {[id |-> nextFav, user_id |-> r.user, listing_id |-> r.id]}
            /\ nextFav' = nextFav + 1
            /\ reqs' = [reqs EXCEPT ![s] = Respond(r, 201, "-")]
       ELSE /\ reqs' = [reqs EXCEPT ![s] =
                          IF e = "23505" THEN Respond(r, 400, "DUPLICATE")
                          ELSE Respond([r EXCEPT !.failed = "write"], 500, "INSERT_ERROR")]
            /\ UNCHANGED <<favorites, nextFav>>
  /\ resp' = NoResp
  /\ UNCHANGED <<listings, nextId, blobs, nextKey, now, mounted, auth, served>>

(***************************************************************************)
(* The handlers that make one store call: the response is all they leave.  *)
(***************************************************************************)
\* res.status(status).json(...): rows are the rows of the body, flag its
\* isFavorited, total its total (of list and search); failed is set when the
\* answer is due to a failure of the store that the status does not show.
Answer(route, a, id, status, code, rows, flag) ==
  [route |-> route, user |-> a.user, id |-> id, status |-> status,
   code |-> code, rows |-> rows, flag |-> flag, total |-> 0, failed |-> FALSE]

\* The answer of a route whose middleware did not call the handler.
Rejected(route, a, id) == Answer(route, a, id, a.status, "-", <<>>, FALSE)

\* The slots once a later request is answered: the records of the requests
\* answered before it are dropped.
Answered == [s \in Slots |-> IF reqs[s].pc = "done" THEN Idle ELSE reqs[s]]

ReadOnly ==
  /\ reqs' = Answered
  /\ UNCHANGED <<listings, nextId, blobs, nextKey, favorites, nextFav, now, mounted, auth, served>>

\* A remove that forgets to filter on the requester (defined for comparison,
\* used by no specification).
RemoveFavoriteAnyUser(a, listingId, ok) ==
  LET route == "DELETE /favorites/:listingId" IN
  /\ IF ~a.next
       THEN /\ resp' = Rejected(route, a, listingId)
            /\ UNCHANGED favorites
     ELSE IF ok
       THEN /\ favorites' = {f \in favorites : f.listing_id # listingId}
            /\ resp' = Answer(route, a, listingId, 200, "-", <<>>, FALSE)
     ELSE /\ resp' = Answer(route, a, listingId, 500, "DELETE_ERROR", <<>>, FALSE)
          /\ UNCHANGED favorites
  /\ reqs' = Answered
  /\ UNCHANGED <<listings, nextId, blobs, nextKey, nextFav, now, mounted, auth, served>>

\* DELETE /favorites/:listingId
RemoveFavorite(a, listingId, ok) ==
  LET route == "DELETE /favorites/:listingId" IN
  /\ IF ~a.next
       THEN /\ resp' = Rejected(route, a, listingId)
            /\ UNCHANGED favorites
     ELSE IF ok
       THEN /\ favorites' = favorites \ FavsOf(a.user, listingId)
            /\ resp' = Answer(route, a, listingId, 200, "-", <<>>, FALSE)
     ELSE /\ resp' = Answer(route, a, listingId, 500, "DELETE_ERROR", <<>>, FALSE)
          /\ UNCHANGED favorites
  /\ reqs' = Answered
  /\ UNCHANGED <<listings, nextId, blobs, nextKey, nextFav, now, mounted, auth, served>>

\* A check that forgets to filter on the requester (defined for comparison,
\* used by no specification).
CheckFavoriteAnyUser(a, listingId, ok) ==
  LET route == "GET /favorites/check/:listingId"
      favorite == Cardinality({f \in favorites : f.listing_id = listingId}) = 1
  IN
  /\ resp' = IF ~a.next THEN Rejected(route, a, listingId)
             ELSE IF ok THEN Answer(route, a, listingId, 200, "-", <<>>, favorite)
             ELSE Answer(route, a, listingId, 500, "CHECK_ERROR", <<>>, FALSE)
  /\ ReadOnly

\* GET /favorites/check/:listingId: single() answers PGRST116 with data null
\* unless exactly one row matches, and the handler takes that for "absent".
CheckFavorite(a, listingId, ok) ==
  LET route == "GET /favorites/check/:listingId"
      favorite == Cardinality(FavsOf(a.user, listingId)) = 1
  IN
  /\ resp' = IF ~a.next THEN Rejected(route, a, listingId)
             ELSE IF ok THEN Answer(route, a, listingId, 200, "-", <<>>, favorite)
             ELSE Answer(route, a, listingId, 500, "CHECK_ERROR", <<>>, FALSE)
  /\ ReadOnly

\* .order(col, {ascending: asc}): every order of the rows the store may
\* return; rows that agree on col come in any order.
RECURSIVE Ordered(_, _, _)
Ordered(S, col, asc) ==
  IF S = {} THEN {<<>>}
  ELSE LET first == {r \in S : \A q \in S : IF asc THEN r[col] <= q[col]
                                           ELSE r[col] >= q[col]}
       IN UNION {{<<r>> \o t : t \in Ordered(S \ {r}, col, asc)} : r \in first}

\* .limit(50) of the favorites list and of router 2's owner queries
FavoritesLimit == 50
MyListingsLimit == 50

\* .limit(n)
Take(seq, n) == SubSeq(seq, 1, Min(n, Len(seq)))

ProjectAll(seq, cols) == [i \in 1..Len(seq) |-> Project(seq[i], cols)]

AllCols == {"id", "landlord_id", "is_available", "price", "image_url", "images", "updated_at"}
CardCols == {"id", "price", "is_available", "image_url"}
DetailCols == {"id", "price", "is_available", "image_url", "images", "landlord_id"}

\* The columns the mounted router's list, search and owner queries select.
ListCols == IF mounted = 1 THEN AllCols ELSE CardCols

\* if (min_price) query = query.gte('price', parseInt(min_price))
MinPriceFilter(rows, min_price) ==
  IF min_price = "" THEN rows ELSE {l \in rows : l.price >= ParseInt(min_price)}

\* The availability predicate of list and search: router 2 always asks for
\* is_available = true; router 1's list asks for it only of an anonymous
\* requester, and router 1's search never does.
AvailabilityFilter(route, user, rows) ==
  IF mounted = 2 THEN {l \in rows : l.is_available}
  ELSE IF route = "GET /listings" /\ user = NoUser THEN {l \in rows : l.is_available}
  ELSE rows

\* The code of the 500 answered by a query's catch block.
QueryCatchCode(route) ==
  IF mounted = 1 THEN "-"
  ELSE IF route = "POST /listings/search" THEN "SEARCH_ERROR"
  ELSE "FETCH_ERROR"

\* limit = 20 of list and search when the request names none
DefaultLimit == 20

\* .range(offset, offset + limit - 1): rows offset .. offset + limit - 1,
\* counted from 0
Range(rows, offset, limit) == SubSeq(rows, offset + 1, Min(Len(rows), offset + limit))

\* count of a query that asked for no count: null, kept apart from every
\* number of rows
NullCount == 0 - 1

\* total of the body: router 1 hands on count, router 2 count || listings.length
Total(page) == IF mounted = 1 THEN NullCount ELSE Len(page)

\* GET /listings and POST /listings/search: the rows that pass the filters,
\* most recently updated first, cut to the page asked for.  The text query
\* of search and the other filters are over columns this model does not
\* keep; each only narrows the result further.
ListListings(route, a, min_price, limit, offset, ok) ==
  /\ route \in {"GET /listings", "POST /listings/search"}
  /\ LET match == AvailabilityFilter(route, a.user, MinPriceFilter(listings, min_price)) IN
     IF ~a.next THEN resp' = Rejected(route, a, 0)
     ELSE IF ~ok THEN resp' = Answer(route, a, 0, 500, QueryCatchCode(route), <<>>, FALSE)
     ELSE \E rows \in Ordered(match, "updated_at", FALSE) :
            LET page == ProjectAll(Range(rows, offset, limit), ListCols) IN
            resp' = [Answer(route, a, 0, 200, "-", page, FALSE) EXCEPT !.total = Total(page)]
  /\ ReadOnly

\* canView of get
CanView(listing, user) ==
  listing.is_available \/ (user # NoUser /\ user = listing.landlord_id)

\* GET /listings/:id.  Router 1 throws on the error of single(), which is
\* also what a missing row gives; router 2 answers 404 to it.
GetListing(a, id, ok) ==
  LET route == "GET /listings/:id"
      f == SelectListing(id, ok)
  IN
  /\ resp' = IF ~a.next THEN Rejected(route, a, id)
             ELSE IF f.error
               THEN [(IF mounted = 1 THEN Answer(route, a, id, 500, "-", <<>>, FALSE)
                      ELSE Answer(route, a, id, 404, "NOT_FOUND", <<>>, FALSE))
                       EXCEPT !.failed = ~ok]
             ELSE IF ~CanView(f.data, a.user)
               THEN Answer(route, a, id, 403,
                           IF mounted = 1 THEN "-" ELSE "UNAVAILABLE", <<>>, FALSE)
             ELSE Answer(route, a, id, 200, "-",
                         <<Project(f.data, IF mounted = 1 THEN AllCols ELSE DetailCols)>>, FALSE)
  /\ ReadOnly

\* The rows an owner query hands back: router 2 caps them with .limit(50).
OwnerPage(rows) == IF mounted = 1 THEN rows ELSE Take(rows, MyListingsLimit)

\* An owner query that keeps to the available rows (defined for comparison,
\* used by no specification).
MyListingsAvailableOnly(a, ok) ==
  LET route == "GET /listings/landlord/my-listings"
      match == {l \in listings : l.landlord_id = a.user /\ l.is_available}
  IN
  /\ IF ~a.next THEN resp' = Rejected(route, a, 0)
     ELSE IF ~ok THEN resp' = Answer(route, a, 0, 500, QueryCatchCode(route), <<>>, FALSE)
     ELSE \E rows \in Ordered(match, "updated_at", FALSE) :
            resp' = Answer(route, a, 0, 200, "-", ProjectAll(OwnerPage(rows), ListCols), FALSE)
  /\ ReadOnly

\* GET /listings/landlord/my-listings
MyListings(a, ok) ==
  LET route == "GET /listings/landlord/my-listings"
      match == {l \in listings : l.landlord_id = a.user}
  IN
  /\ IF ~a.next THEN resp' = Rejected(route, a, 0)
     ELSE IF ~ok THEN resp' = Answer(route, a, 0, 500, QueryCatchCode(route), <<>>, FALSE)
     ELSE \E rows \in Ordered(match, "updated_at", FALSE) :
            resp' = Answer(route, a, 0, 200, "-", ProjectAll(OwnerPage(rows), ListCols), FALSE)
  /\ ReadOnly

\* GET /listings/landlord/:landlordId
LandlordListings(a, landlordId, ok) ==
  LET route == "GET /listings/landlord/:landlordId"
      match == {l \in listings : l.landlord_id = landlordId /\ l.is_available}
  IN
  /\ IF ~a.next THEN resp' = Rejected(route, a, 0)
     ELSE IF ~ok THEN resp' = Answer(route, a, 0, 500, QueryCatchCode(route), <<>>, FALSE)
     ELSE \E rows \in Ordered(match, "updated_at", FALSE) :
            resp' = Answer(route, a, 0, 200, "-", ProjectAll(OwnerPage(rows), ListCols), FALSE)
  /\ ReadOnly

\* favorites.filter((f) => f.listings?.is_available) on the joined rows
RECURSIVE AvailableOnly(_)
AvailableOnly(favs) ==
  IF favs = <<>> THEN <<>>
  ELSE (IF \E l \in listings : l.id = favs[1].listing_id /\ l.is_available
          THEN <<favs[1]>> ELSE <<>>) \o AvailableOnly(Tail(favs))

\* A favorites list that hands back the joined rows as they come, without the
\* filter on is_available (defined for comparison, used by no specification).
ListFavoritesUnfiltered(a, ok) ==
  LET route == "GET /favorites"
      match == {f \in favorites : f.user_id = a.user}
  IN
  /\ IF ~a.next THEN resp' = Rejected(route, a, 0)
     ELSE IF ~ok THEN resp' = Answer(route, a, 0, 500, "FETCH_ERROR", <<>>, FALSE)
     ELSE \E rows \in Ordered(match, "id", FALSE) :
            resp' = Answer(route, a, 0, 200, "-", Take(rows, FavoritesLimit), FALSE)
  /\ ReadOnly

\* GET /favorites: the requester's favorites, newest first (the store stamps
\* created_at as it assigns the id), at most 50, less those whose listing is
\* not available.
ListFavorites(a, ok) ==
  LET route == "GET /favorites"
      match == {f \in favorites : f.user_id = a.user}
  IN
  /\ IF ~a.next THEN resp' = Rejected(route, a, 0)
     ELSE IF ~ok THEN resp' = Answer(route, a, 0, 500, "FETCH_ERROR", <<>>, FALSE)
     ELSE \E rows \in Ordered(match, "id", FALSE) :
            resp' = Answer(route, a, 0, 200, "-",
                           AvailableOnly(Take(rows, FavoritesLimit)), FALSE)
  /\ ReadOnly

(***************************************************************************)
(* Specifications.  Each starts from the empty store, with one of the two  *)
(* listings routers mounted, and runs within one tick of the clock (rows   *)
(* written in the same tick agree on updated_at, and the store may return  *)
(* them in any order); SpecCatalogue and SpecManyFavorites start from a    *)
(* store filled over many ticks.                                           *)
(***************************************************************************)
Init ==
  /\ listings = {}
  /\ nextId = 1
  /\ blobs = {}
  /\ nextKey = 1
  /\ favorites = {}
  /\ nextFav = 1
  /\ now = 0
  /\ mounted \in {1, 2}
  /\ reqs = [s \in Slots |-> Idle]
  /\ resp = NoResp
  /\ auth = NoAuth
  /\ served = 0

\* The identity resolver on every route.
NextAuth ==
  \E route \in Routes, h \in Headers : \E i \in IdpFor(h) : Middleware(route, h, i)

SpecAuth == Init /\ [][NextAuth]_vars

Bearer(t) == BearerPrefix \o <<t>>

\* The URLs the object store has handed out: those of the blobs named so far.
KnownUrls == {PublicUrl(Key(k)) : k \in 1..(nextKey - 1)}

\* A URL of the client's own making.
ForeignUrl == <<"https:", "", "elsewhere", "pic.jpg">>

\* What a client can put in existing_images: nothing, text that is not JSON,
\* the empty list, or a list of one URL, handed out by the object store or not.
ExistingInputs ==
  {ExistingAbsent, ExistingBad, <<>>} \cup {<<u>> : u \in KnownUrls \cup {ForeignUrl}}

ListingIds == 1..MaxListings

\* The image workflow: create, update and delete of listings, one request at
\* a time: every identity asks to create, and lara, carl and an anonymous
\* client update and delete.  The inputs a handler does not get to read are not varied: a
\* request the middleware or the ownership check turns away carries no files.
AllHeaders == {NoHeader} \cup {Bearer(t) : t \in Tokens}
WorkflowHeaders == {NoHeader, Bearer("tok_lara"), Bearer("tok_carl")}

CreateAuth == AuthResults("POST /listings", AllHeaders)
UpdateAuth == AuthResults("PUT /listings/:id", WorkflowHeaders)
DeleteAuth == AuthResults("DELETE /listings/:id", WorkflowHeaders)

Owns(a, id) == \E l \in listings : l.id = id /\ l.landlord_id = a.user

NextImages ==
  \E s \in {"a"} :
    \/ /\ Free(s)
       /\ \/ \E a \in CreateAuth, ok \in BOOLEAN :
               CreateStart(s, a, 0, "true", "10", "[]", ok)
          \/ \E a \in {x \in CreateAuth : x.next /\ MayCreate(Profile(x.user))},
                files \in 0..(MaxKeys + 1 - nextKey), amenities \in {"[]", "bad"} :
               CreateStart(s, a, files, "true", "10", amenities, TRUE)
    \/ /\ reqs[s].pc = "uploading"
       /\ \E oks \in [1..Len(reqs[s].keys) -> BOOLEAN] : UploadAll(s, oks)
    \/ \E ok \in BOOLEAN : CreateInsert(s, ok)
    \/ /\ Free(s)
       /\ \/ \E a \in UpdateAuth, id \in ListingIds, ok \in BOOLEAN :
               UpdateStart(s, a, id, 0, ExistingAbsent, "true", "10", "[]", ok)
          \/ \E id \in ListingIds : \E a \in {x \in UpdateAuth : x.next /\ Owns(x, id)},
                files \in 0..(MaxKeys + 1 - nextKey), existing \in ExistingInputs,
                amenities \in {"[]", "bad"} :
               UpdateStart(s, a, id, files, existing, "true", "10", amenities, TRUE)
    \/ \E ok \in BOOLEAN : RemoveBlobs(s, ok)
    \/ \E ok \in BOOLEAN : UpdateWrite(s, ok)
    \/ /\ Free(s)
       /\ \E a \in DeleteAuth, id \in ListingIds, ok \in BOOLEAN :
            DeleteStart(s, a, id, ok)
    \/ \E ok \in BOOLEAN : DeleteRow(s, ok, TRUE)

Spec == Init /\ [][NextImages]_vars

(***************************************************************************)
(* The favorites router next to the listings it points at: lara creates,   *)
(* updates and deletes listings without images (slot "a"); lara, tess and  *)
(* an anonymous client add, remove, check and list favorites, two add      *)
(* requests at a time.                                                     *)
(***************************************************************************)
FavoriteHeaders == {NoHeader, Bearer("tok_lara"), Bearer("tok_tess")}
OwnerHeaders == {Bearer("tok_lara")}

AddAuth == AuthResults("POST /favorites", FavoriteHeaders)
RemoveAuth == AuthResults("DELETE /favorites/:listingId", FavoriteHeaders)
CheckAuth == AuthResults("GET /favorites/check/:listingId", FavoriteHeaders)
ListFavoritesAuth == AuthResults("GET /favorites", FavoriteHeaders)
OwnerCreateAuth == AuthResults("POST /listings", OwnerHeaders)
OwnerUpdateAuth == AuthResults("PUT /listings/:id", OwnerHeaders)
OwnerDeleteAuth == AuthResults("DELETE /listings/:id", OwnerHeaders)

Flags == {"true", "false"}

NextFavorites ==
  \/ \E a \in OwnerCreateAuth, avail \in Flags :
       CreateStart("a", a, 0, avail, "10", "[]", TRUE)
  \/ CreateInsert("a", TRUE)
  \/ \E a \in OwnerUpdateAuth, id \in ListingIds, avail \in Flags :
       UpdateStart("a", a, id, 0, ExistingAbsent, avail, "10", "[]", TRUE)
  \/ UpdateWrite("a", TRUE)
  \/ \E a \in OwnerDeleteAuth, id \in ListingIds : DeleteStart("a", a, id, TRUE)
  \/ \E cascade \in BOOLEAN : DeleteRow("a", TRUE, cascade)
  \/ \E s \in Slots, a \in AddAuth, listing_id \in 0..MaxListings, ok \in BOOLEAN :
       FavoriteStart(s, a, listing_id, ok)
  \/ \E s \in Slots, ok \in BOOLEAN : FavoriteInsert(s, ok)
  \/ \E a \in RemoveAuth, listingId \in ListingIds, ok \in BOOLEAN :
       RemoveFavorite(a, listingId, ok)
  \/ \E a \in CheckAuth, listingId \in ListingIds, ok \in BOOLEAN :
       CheckFavorite(a, listingId, ok)
  \/ \E a \in ListFavoritesAuth, ok \in BOOLEAN : ListFavorites(a, ok)

SpecFavorites == Init /\ [][NextFavorites]_vars

(***************************************************************************)
(* The queries next to the listings they read: lara creates listings       *)
(* without images and changes them (slot "a"), all within one tick of the  *)
(* clock, and lara, carl and an anonymous client list, search and get.  A  *)
(* query is one store call: served while a write request waits on the      *)
(* store, it reads the store as the request found it, so the queries are   *)
(* taken between the write requests.                                       *)
(***************************************************************************)
ReadHeaders == {NoHeader, Bearer("tok_lara"), Bearer("tok_carl")}
ListRoutes == {"GET /listings", "POST /listings/search"}
GetAuth == AuthResults("GET /listings/:id", ReadHeaders)
MyListingsAuth == AuthResults("GET /listings/landlord/my-listings", ReadHeaders)
LandlordAuth == AuthResults("GET /listings/landlord/:landlordId", ReadHeaders)

\* The pages asked for: the default one, and the second page of one row.
Pages == {<<DefaultLimit, 0>>, <<1, 1>>}

NextQueries ==
  \/ \E a \in OwnerCreateAuth, avail \in Flags, price \in {"10", "20"} :
       CreateStart("a", a, 0, avail, price, "[]", TRUE)
  \/ CreateInsert("a", TRUE)
  \/ \E a \in OwnerUpdateAuth, id \in ListingIds, avail \in Flags :
       UpdateStart("a", a, id, 0, ExistingAbsent, avail, "10", "[]", TRUE)
  \/ UpdateWrite("a", TRUE)
  \/ Free("a") /\ \E route \in ListRoutes : \E a \in AuthResults(route, ReadHeaders),
        min_price \in {"", "20"}, page \in Pages, ok \in BOOLEAN :
       ListListings(route, a, min_price, page[1], page[2], ok)
  \/ Free("a") /\ \E a \in GetAuth, id \in ListingIds, ok \in BOOLEAN : GetListing(a, id, ok)

SpecQueries == Init /\ [][NextQueries]_vars

(***************************************************************************)
(* The owner's queries over a large catalogue: lara has created about as   *)
(* many listings as the owner queries' limit, one listing per tick, every  *)
(* second one unavailable; carl has created the first listing.             *)
(***************************************************************************)
Extra == 1   \* listings of the catalogue beyond the limit of the owner queries

CatalogueRow(i) ==
  [id |-> i, landlord_id |-> IF i = 1 THEN "carl" ELSE "lara",
   is_available |-> i % 2 = 0, price |-> 10, image_url |-> Null, images |-> <<>>,
   updated_at |-> i]

Catalogue(n) == {CatalogueRow(i) : i \in 1..n}

InitCatalogue ==
  \E n \in MyListingsLimit..(MyListingsLimit + 1 + Extra) :
    /\ listings = Catalogue(n)
    /\ nextId = n + 1
    /\ blobs = {}
    /\ nextKey = 1
    /\ favorites = {}
    /\ nextFav = 1
    /\ now = n
    /\ mounted \in {1, 2}
    /\ reqs = [s \in Slots |-> Idle]
    /\ resp = NoResp
    /\ auth = NoAuth
    /\ served = 0

\* carl's listing, an available and an unavailable listing of lara, and a
\* listing that is not there
SampleIds == {1, 2, 3, MyListingsLimit + 10}

NextCatalogue ==
  \/ \E a \in GetAuth, id \in SampleIds, ok \in BOOLEAN : GetListing(a, id, ok)
  \/ \E a \in MyListingsAuth, ok \in BOOLEAN : MyListings(a, ok)
  \/ \E a \in LandlordAuth, landlordId \in {"lara", "carl"}, ok \in BOOLEAN :
       LandlordListings(a, landlordId, ok)

SpecCatalogue == InitCatalogue /\ [][NextCatalogue]_vars

(***************************************************************************)
(* The favorites list of a user with many favorites: tess has favorited    *)
(* every listing of the catalogue, in the order of their ids, and lara     *)
(* changes the availability of two of her listings.                        *)
(***************************************************************************)
InitManyFavorites ==
  \E n \in MyListingsLimit..(MyListingsLimit + 1 + Extra) :
    /\ listings = Catalogue(n)
    /\ nextId = n + 1
    /\ blobs = {}
    /\ nextKey = 1
    /\ favorites = {[id |-> i, user_id |-> "tess", listing_id |-> i] : i \in 1..n}
    /\ nextFav = n + 1
    /\ now = n
    /\ mounted \in {1, 2}
    /\ reqs = [s \in Slots |-> Idle]
    /\ resp = NoResp
    /\ auth = NoAuth
    /\ served = 0

\* an old listing of lara and one of her latest FavoritesLimit, both available
\* at the start
ToggledIds == {2, MyListingsLimit}

NextManyFavorites ==
  \/ \E a \in OwnerUpdateAuth, id \in ToggledIds, avail \in Flags :
       UpdateStart("a", a, id, 0, ExistingAbsent, avail, "10", "[]", TRUE)
  \/ UpdateWrite("a", TRUE)
  \/ Free("a") /\ \E a \in ListFavoritesAuth, ok \in BOOLEAN : ListFavorites(a, ok)

SpecManyFavorites == InitManyFavorites /\ [][NextManyFavorites]_vars

(***************************************************************************)
(* Updates of one listing side by side: lara creates a listing with a      *)
(* primary and an additional image, then sends updates that keep the       *)
(* additional images (no existing_images) or drop them (existing_images =  *)
(* '[]'), two at a time.  No call to the store or the object store fails.  *)
(***************************************************************************)
RaceFiles == 2

AllOk(n) == [i \in 1..n |-> TRUE]

NextRace ==
  \/ \E a \in OwnerCreateAuth : CreateStart("a", a, RaceFiles, "true", "10", "[]", TRUE)
  \/ /\ reqs["a"].pc = "uploading"
     /\ UploadAll("a", AllOk(Len(reqs["a"].keys)))
  \/ CreateInsert("a", TRUE)
  \/ \E s \in Slots, a \in OwnerUpdateAuth, id \in ListingIds,
        existing \in {ExistingAbsent, <<>>} :
       UpdateStart(s, a, id, 0, existing, "true", "10", "[]", TRUE)
  \/ \E s \in Slots : RemoveBlobs(s, TRUE)
  \/ \E s \in Slots : UpdateWrite(s, TRUE)

SpecRace == Init /\ [][NextRace]_vars

(***************************************************************************)
(* Properties of the identity resolver, checked under SpecAuth.            *)
(***************************************************************************)
\* The requests on which getUserFromAuth is to resolve nobody: no header, a
\* header that does not start with 'Bearer ', or a provider that answers with
\* an error or raises.
Unresolvable(a) ==
  \/ a.header = NoHeader
  \/ ~StartsWith(a.header, BearerPrefix)
  \/ a.idp \in {"error", "throw"}

\* C10: for a missing header, a header not starting with 'Bearer ' and any
\* error or exception of the identity provider, getUserFromAuth returns null
\* and does not throw; requireAuth then answers 401 without calling the
\* handler, optionalAuth calls the handler with user = null, and neither
\* answers a 5xx.
C10_ResolverNeverThrows ==
  (auth.route # "-" /\ Unresolvable(auth)) =>
    /\ ~auth.threw
    /\ auth.user = NoUser
    /\ auth.status < 500
    /\ auth.route \in RequireAuthRoutes => (auth.status = 401 /\ ~auth.next)
    /\ auth.route \in OptionalAuthRoutes => (auth.status = 0 /\ auth.next)

\* The provider raised on a route behind optionalAuth, and the handler was
\* called with no user.
C10_Witness ==
  /\ auth.idp = "throw"
  /\ auth.route \in OptionalAuthRoutes
  /\ auth.next
  /\ auth.user = NoUser

(***************************************************************************)
(* Properties of the image workflow, checked under Spec.                   *)
(***************************************************************************)
\* C2: update never removes a blob before the row that carries the new
\* references is written: when an update does not end with the row written,
\* no blob that the stored row references has been removed by it.
C2_FailedUpdateKeepsBlobs ==
  \A s \in Slots :
    LET r == reqs[s] IN
    (r.kind = "update" /\ r.pc = "done" /\ r.status # 200) =>
      \A l \in RowById(r.id) : \A u \in RefsOf(l) : PathOf(u) \notin r.removed

\* C6: a create request of an authenticated identity whose profile role is
\* neither landlord nor caretaker, a missing profile or role included, is
\* answered Forbidden (403) whenever the store itself does not fail.
C6_ForbiddenWithoutRole ==
  \A s \in Slots :
    LET r == reqs[s] IN
    (r.kind = "create" /\ r.pc = "done" /\ r.user # NoUser
       /\ ~MayCreate(Profile(r.user)) /\ r.failed # "profile")
    => r.status = 403

\* C7: in create and update, when the upload of one of the request's files
\* fails the request is answered 500, and from its start to that answer the
\* listings table is unchanged and no blob is removed.
C7_UploadFailureAborts ==
  [][\A s \in Slots :
       /\ (reqs[s].pc # "uploading" /\ reqs'[s].pc = "uploading")
            => (listings' = listings /\ blobs' = blobs /\ reqs'[s].removed = {})
       /\ (reqs[s].pc = "uploading" /\ reqs'[s] # reqs[s]
             /\ \E i \in 1..Len(reqs[s].keys) : reqs[s].keys[i] \notin blobs')
            => /\ reqs'[s].pc = "done"
               /\ reqs'[s].status = 500
               /\ reqs'[s].removed = {}
               /\ listings' = listings
               /\ blobs \subseteq blobs']_vars

\* An update of a listing that has additional images was answered 500 because
\* an upload failed.
C7_Witness ==
  \E s \in Slots :
    /\ reqs[s].kind = "update"
    /\ reqs[s].failed = "upload"
    /\ reqs[s].status = 500
    /\ \E l \in RowById(reqs[s].id) : l.images # <<>>

\* C8: an update or delete of a listing by an authenticated identity that is
\* not its landlord_id changes no row and no blob, and is answered 403 (500
\* by router 1 when the store fails to hand over the row).
C8_NonOwnerRefused ==
  [][\A s \in Slots :
       (/\ reqs'[s] # reqs[s]
        /\ reqs'[s].kind \in {"update", "delete"}
        /\ reqs'[s].user # NoUser
        /\ \E l \in listings : l.id = reqs'[s].id /\ l.landlord_id # reqs'[s].user)
       => /\ listings' = listings
          /\ blobs' = blobs
          /\ reqs'[s].pc = "done"
          /\ reqs'[s].removed = {}
          /\ \/ reqs'[s].status = 403
             \/ reqs'[s].status = 500 /\ reqs'[s].failed = "fetch"]_vars

\* An authenticated identity was answered 403 on an update or delete of a
\* listing with images that belongs to someone else.
C8_Witness ==
  \E s \in Slots :
    /\ reqs[s].kind \in {"update", "delete"}
    /\ reqs[s].status = 403
    /\ reqs[s].user # NoUser
    /\ \E l \in RowById(reqs[s].id) : l.landlord_id # reqs[s].user /\ RefsOf(l) # {}

\* The row of listing id after the step.
RowAfter(id) == {l \in listings' : l.id = id}

\* C11: when an update is answered with the row written, every image
\* reference of the row the request fetched (primary or additional) that the
\* written row no longer carries has its blob removed from the object store,
\* and every reference kept from the fetched row's additional images is in
\* the written row's images once, with its blob still there.
C11_OrphansRemoved ==
  [][\A s \in Slots :
       (/\ reqs[s].kind = "update"
        /\ reqs[s].pc = "writing"
        /\ reqs'[s].status = 200)
       => \A l \in RowAfter(reqs[s].id) :
            /\ \A u \in RefsOf(reqs[s].listing) \ RefsOf(l) : PathOf(u) \notin blobs'
            /\ \A u \in SeqToSet(reqs[s].listing.images) \cap SeqToSet(l.images) :
                 /\ Cardinality({i \in 1..Len(l.images) : l.images[i] = u}) = 1
                 /\ PathOf(u) \in blobs => PathOf(u) \in blobs']_vars

\* C12: when a delete is answered 200 the row is gone and no blob that the
\* row referenced (primary or additional) is left in the object store; and a
\* delete request removes the row only in its last step, after the remove of
\* the blobs was issued.
C12_DeleteRemovesBlobsThenRow ==
  [][\A s \in Slots :
       /\ (/\ reqs[s].kind = "delete"
           /\ reqs[s].pc = "writing"
           /\ reqs'[s].status = 200)
          => /\ RowAfter(reqs[s].id) = {}
             /\ \A l \in RowById(reqs[s].id) : \A u \in RefsOf(l) : PathOf(u) \notin blobs'
       /\ (reqs'[s] # reqs[s] /\ reqs'[s].kind = "delete" /\ listings' # listings)
          => reqs[s].pc = "writing"]_vars

\* C13: every image reference of a stored row (image_url and each element of
\* images) is a public URL that the object store handed out for a blob this
\* system named.
C13_OnlyManagedRefs ==
  \A l \in listings : RefsOf(l) \subseteq KnownUrls

\* The calls to the store and the object store that a request's record names
\* as failed.
StoreFailures == {"profile", "fetch", "upload", "remove", "write"}

\* C15: a request that met a failure of the store or of the object store is
\* answered with an error status; a failed remove of blobs in update or
\* delete is never followed by a success response.
C15_FailuresSurfaced ==
  \A s \in Slots :
    (reqs[s].pc = "done" /\ reqs[s].failed \in StoreFailures) => reqs[s].status >= 400

(***************************************************************************)
(* Properties of the queries, checked under SpecQueries.                   *)
(***************************************************************************)
\* C1: list, search and get never hand a row whose is_available is false to
\* a requester that is anonymous or is not the row's owner, whatever filters
\* the request carries.
C1_UnavailableHidden ==
  (resp.route \in {"GET /listings", "POST /listings/search", "GET /listings/:id"}
     /\ resp.status = 200)
  => \A i \in 1..Len(resp.rows) :
       \/ resp.rows[i].is_available
       \/ "landlord_id" \in DOMAIN resp.rows[i] /\ resp.rows[i].landlord_id = resp.user

\* C14: get of an id that no row has is answered 404, and get of a row that
\* is unavailable by an anonymous requester or one that is not its owner is
\* answered 403 (the store itself not failing); neither carries a row.
C14_GetNotFoundOrForbidden ==
  (resp.route = "GET /listings/:id" /\ ~resp.failed)
  => /\ RowById(resp.id) = {} => (resp.status = 404 /\ resp.rows = <<>>)
     /\ (\E l \in RowById(resp.id) :
           ~l.is_available /\ (resp.user = NoUser \/ resp.user # l.landlord_id))
        => (resp.status = 403 /\ resp.rows = <<>>)

\* C17: a list or search that is answered 200 returns at most limit rows, and
\* its total is the number of rows that match the request's filters, whatever
\* the page asked for.
C17_TotalIgnoresPagination ==
  [][\A route \in ListRoutes, min_price \in {"", "20"}, page \in Pages :
       \A a \in AuthResults(route, ReadHeaders) :
         (ListListings(route, a, min_price, page[1], page[2], TRUE) /\ resp'.status = 200)
         => LET match == AvailabilityFilter(route, a.user,
                                            MinPriceFilter(listings, min_price))
            IN /\ Len(resp'.rows) <= page[1]
               /\ resp'.total = Cardinality(match)]_vars

(***************************************************************************)
(* Properties of the favorites router, checked under SpecFavorites.        *)
(***************************************************************************)
\* Whether favs holds a favorite of user u for listing l.
Has(favs, u, l) == \E f \in favs : f.user_id = u /\ f.listing_id = l

\* C3: the favorites table never holds two rows for one (user, listing) pair,
\* and an add for a pair that is already there leaves the table as it is and
\* is answered 400 DUPLICATE (500 when the store itself fails).
C3_DuplicateRefused ==
  [][/\ favorites' # favorites =>
          \A f1, f2 \in favorites' :
            (f1.user_id = f2.user_id /\ f1.listing_id = f2.listing_id) => f1 = f2
     /\ \A s \in Slots :
          (/\ reqs[s].kind = "favorite"
           /\ reqs[s].pc = "writing"
           /\ reqs'[s] # reqs[s]
           /\ Has(favorites, reqs[s].user, reqs[s].id))
          => /\ favorites' = favorites
             /\ reqs'[s].pc = "done"
             /\ \/ reqs'[s].status = 400 /\ reqs'[s].code = "DUPLICATE"
                \/ reqs'[s].status = 500 /\ reqs'[s].failed = "write"]_vars

\* An add was answered DUPLICATE and the pair's one row is still there.
C3_Witness ==
  \E s \in Slots :
    /\ reqs[s].kind = "favorite"
    /\ reqs[s].code = "DUPLICATE"
    /\ Cardinality(FavsOf(reqs[s].user, reqs[s].id)) = 1

\* C4: an add whose listing is there but unavailable is answered 400
\* UNAVAILABLE, an add whose listing is not there is answered 404 NOT_FOUND,
\* and neither inserts a favorite: the request ends where it is answered.
C4_UnavailableOrAbsentRefused ==
  [][\A s \in Slots :
       (/\ Free(s)
        /\ reqs'[s] # reqs[s]
        /\ reqs'[s].kind = "favorite"
        /\ reqs'[s].user # NoUser
        /\ reqs'[s].id # 0
        /\ reqs'[s].failed # "fetch")
       => /\ RowById(reqs'[s].id) = {}
               => (/\ reqs'[s].pc = "done"
                   /\ reqs'[s].status = 404
                   /\ reqs'[s].code = "NOT_FOUND"
                   /\ favorites' = favorites)
          /\ (\E l \in RowById(reqs'[s].id) : ~l.is_available)
               => (/\ reqs'[s].pc = "done"
                   /\ reqs'[s].status = 400
                   /\ reqs'[s].code = "UNAVAILABLE"
                   /\ favorites' = favorites)]_vars

\* One add was answered UNAVAILABLE for a listing that is there and
\* unavailable, another NOT_FOUND for a listing that is not there.
C4_Witness ==
  \E s, t \in Slots :
    /\ reqs[s].kind = "favorite" /\ reqs[s].code = "UNAVAILABLE"
    /\ \E l \in RowById(reqs[s].id) : ~l.is_available
    /\ reqs[t].kind = "favorite" /\ reqs[t].code = "NOT_FOUND"
    /\ reqs[t].failed # "fetch"
    /\ RowById(reqs[t].id) = {}

\* C5: check answers isFavorited = true exactly when the pair has a row; a
\* successful add leaves the pair with a row and a successful remove leaves
\* it without; and nothing but an add or remove of the pair, or the delete of
\* the listing, changes whether the pair has a row.
C5_CheckFollowsAddAndRemove ==
  [][/\ (/\ resp' # resp
         /\ resp'.route = "GET /favorites/check/:listingId"
         /\ resp'.status = 200)
        => (resp'.flag <=> Has(favorites, resp'.user, resp'.id))
     /\ \A s \in Slots :
          (reqs'[s] # reqs[s] /\ reqs'[s].kind = "favorite" /\ reqs'[s].status = 201)
          => Has(favorites', reqs'[s].user, reqs'[s].id)
     /\ (/\ resp' # resp
         /\ resp'.route = "DELETE /favorites/:listingId"
         /\ resp'.status = 200)
        => ~Has(favorites', resp'.user, resp'.id)
     /\ favorites' # favorites => \A u \in Users, l \in ListingIds :
          (Has(favorites, u, l) # Has(favorites', u, l))
          => \/ \E s \in Slots :
                  /\ reqs'[s] # reqs[s]
                  /\ reqs'[s].kind = "favorite" /\ reqs'[s].status = 201
                  /\ reqs'[s].user = u /\ reqs'[s].id = l
             \/ /\ resp' # resp
                /\ resp'.route = "DELETE /favorites/:listingId" /\ resp'.status = 200
                /\ resp'.user = u /\ resp'.id = l
             \/ \E s \in Slots :
                  /\ reqs'[s] # reqs[s]
                  /\ reqs'[s].kind = "delete" /\ reqs'[s].status = 200
                  /\ reqs'[s].id = l]_vars

\* A check answered isFavorited = true for an available listing.
C5_Witness ==
  /\ resp.route = "GET /favorites/check/:listingId"
  /\ resp.status = 200
  /\ resp.flag
  /\ \E l \in RowById(resp.id) : l.is_available

\* C19: a favorite row is only inserted while the listing it points at is in
\* the listings table with is_available = true, whatever updates and deletes
\* of the listing run next to the add.
C19_InsertedWhileAvailable ==
  [][\A f \in favorites' \ favorites :
       \E l \in listings : l.id = f.listing_id /\ l.is_available]_vars

\* The rows that a step inserts into or deletes from the favorites table.
Touched == (favorites' \ favorites) \cup (favorites \ favorites')

\* C20: favorites are isolated per user.  An add, remove, list or check of a
\* user inserts and deletes only rows of that user and returns only rows of
\* that user; and what list and check answer is a function of the requester's
\* own rows (and the listings), which no other user's favorites request
\* changes.  Rows are compared as the table holds them, store-assigned id
\* included.
C20_FavoritesIsolated ==
  [][/\ \A s \in Slots :
          (reqs'[s] # reqs[s] /\ reqs'[s].kind = "favorite")
          => \A f \in Touched : f.user_id = reqs'[s].user
     /\ resp'.route \in {"GET /favorites", "DELETE /favorites/:listingId",
                         "GET /favorites/check/:listingId"}
        => /\ \A f \in Touched : f.user_id = resp'.user
           /\ \A i \in 1..Len(resp'.rows) :
                resp'.rows[i] \in favorites /\ resp'.rows[i].user_id = resp'.user
     /\ (resp'.route = "GET /favorites" /\ resp'.status = 200)
        => SeqToSet(resp'.rows) =
             {f \in favorites : /\ f.user_id = resp'.user
                                /\ \E l \in listings : l.id = f.listing_id /\ l.is_available}
     /\ (resp'.route = "GET /favorites/check/:listingId" /\ resp'.status = 200)
        => (resp'.flag <=> \E f \in favorites :
                             f.user_id = resp'.user /\ f.listing_id = resp'.id)]_vars

\* lara's remove of her favorite of a listing was answered 200, and tess's
\* favorite of the same listing is still in the table.
C20_Witness ==
  /\ resp.route = "DELETE /favorites/:listingId"
  /\ resp.status = 200
  /\ resp.user = "lara"
  /\ Has(favorites, "tess", resp.id)
  /\ ~Has(favorites, "lara", resp.id)

(***************************************************************************)
(* Properties of the owner's queries, checked under SpecCatalogue.         *)
(***************************************************************************)
OwnRows(u) == {l \in listings : l.landlord_id = u}
RowIds(rows) == {rows[i].id : i \in 1..Len(rows)}

\* get of one's own listing answers 200 with the row, available or not.
GetsOwn ==
  (/\ resp.route = "GET /listings/:id"
   /\ resp.user # NoUser
   /\ ~resp.failed
   /\ \E l \in RowById(resp.id) : l.landlord_id = resp.user)
  => /\ resp.status = 200
     /\ Len(resp.rows) = 1
     /\ \E l \in RowById(resp.id) :
          resp.rows[1].id = l.id /\ resp.rows[1].is_available = l.is_available

\* C9 as stated: get of one's own unavailable listing answers with the row,
\* and my-listings answers with every listing of the requester, none omitted.
C9_OwnerSeesAll ==
  /\ GetsOwn
  /\ (resp.route = "GET /listings/landlord/my-listings" /\ resp.status = 200)
       => RowIds(resp.rows) = {l.id : l \in OwnRows(resp.user)}

\* C9 as amended: get of one's own unavailable listing answers with the row,
\* and my-listings answers with the requester's listings, available or not:
\* all of them from router 1, the MyListingsLimit most recently updated from
\* router 2.
C9_OwnerSeesLatest ==
  /\ GetsOwn
  /\ (resp.route = "GET /listings/landlord/my-listings" /\ resp.status = 200)
       => LET own == OwnRows(resp.user)
              ids == RowIds(resp.rows)
          IN /\ ids \subseteq {l.id : l \in own}
             /\ Cardinality(ids) = Len(resp.rows)
             /\ Len(resp.rows) = IF mounted = 1 THEN Cardinality(own)
                                 ELSE Min(Cardinality(own), MyListingsLimit)
             /\ \A i \in 1..Len(resp.rows) : \E l \in own :
                  l.id = resp.rows[i].id /\ l.is_available = resp.rows[i].is_available
             /\ \A l \in own : l.id \notin ids =>
                  \A k \in own : k.id \in ids => k.updated_at >= l.updated_at

\* Router 2 answered my-listings with MyListingsLimit rows, unavailable ones
\* among them, to an owner that has more.
C9_Witness ==
  /\ resp.route = "GET /listings/landlord/my-listings"
  /\ resp.status = 200
  /\ mounted = 2
  /\ Cardinality(OwnRows(resp.user)) > MyListingsLimit
  /\ Len(resp.rows) = MyListingsLimit
  /\ \E i \in 1..Len(resp.rows) : ~resp.rows[i].is_available

(***************************************************************************)
(* Properties of the favorites list, checked under SpecManyFavorites.      *)
(***************************************************************************)
FavoritesOfUser(favs, u) == {f \in favs : f.user_id = u}
OnAvailable(favs) == {f \in favs : \E l \in listings : l.id = f.listing_id /\ l.is_available}

\* C16 as stated: the favorites list holds exactly the requester's favorites
\* whose listing is available now.
C16_AvailableFavoritesListed ==
  (resp.route = "GET /favorites" /\ resp.status = 200)
  => SeqToSet(resp.rows) = OnAvailable(FavoritesOfUser(favorites, resp.user))

\* C16 as amended: the favorites list holds, once each, exactly those of the
\* requester's FavoritesLimit most recently created favorites whose listing
\* is available now; and an update of a listing leaves the favorites table
\* as it is, whatever it does to is_available.
C16_LatestAvailableFavoritesListed ==
  [][/\ (resp'.route = "GET /favorites" /\ resp'.status = 200)
        => LET own == FavoritesOfUser(favorites', resp'.user)
               latest == {f \in own :
                            Cardinality({g \in own : g.id > f.id}) < FavoritesLimit}
           IN /\ SeqToSet(resp'.rows) =
                   {f \in latest :
                      \E l \in listings' : l.id = f.listing_id /\ l.is_available}
              /\ Cardinality(SeqToSet(resp'.rows)) = Len(resp'.rows)
     /\ (\E s \in Slots : reqs'[s] # reqs[s] /\ reqs'[s].kind = "update")
        => favorites' = favorites]_vars

\* tess, who has more than FavoritesLimit favorites, was answered a list that
\* leaves out her favorite of a listing that has become unavailable and is one
\* of her latest FavoritesLimit; the favorite's row is still in the table.
C16_Witness ==
  /\ resp.route = "GET /favorites"
  /\ resp.status = 200
  /\ Cardinality(FavoritesOfUser(favorites, resp.user)) > FavoritesLimit
  /\ resp.rows # <<>>
  /\ \E f \in FavoritesOfUser(favorites, resp.user) :
       /\ f.listing_id = MyListingsLimit
       /\ f \notin SeqToSet(resp.rows)
       /\ \E l \in RowById(f.listing_id) : ~l.is_available

(***************************************************************************)
(* Properties of concurrent updates, checked under SpecRace.               *)
(***************************************************************************)
\* C18: once every update request has been answered, every image reference
\* of a stored row points to a blob that is in the object store.
C18_RefsPointToBlobs ==
  (\A s \in Slots : Free(s))
  => \A l \in listings : \A u \in RefsOf(l) : PathOf(u) \in blobs

====
